---- MODULE Spec2Model ----
(***************************************************************************)
(* A model of mycroft_ptt/speech/mic.py: the lock-guarded MutableStream,   *)
(* the MutableMicrophone device lifecycle and the ResponsiveRecognizer     *)
(* (trigger wait, phrase recording, listen).                               *)
(*                                                                         *)
(* Times are integers in milliseconds; the noise level is kept in          *)
(* thousandths (noise 25 is 25000), so that 200 * sec_per_buffer is the    *)
(* integer 200 * sec_per_buffer_ms.                                        *)
(***************************************************************************)
EXTENDS Integers, Sequences, FiniteSets, TLC

(* ------------------------------------------------------------------ *)
(* Bounds of the model and program constants                          *)
(* ------------------------------------------------------------------ *)

\* Largest size (in frames) a reader asks of MutableStream.read.
MaxSize == 2
\* Largest value get_read_available() reports in one poll.
MaxAvail == 2
\* pyaudio.get_sample_size(paInt16): bytes per sample.
SAMPLE_WIDTH == 2

\* source.CHUNK: frames per chunk (1024 in the repository).
CHUNK == 2
\* Listener configuration the model runs with, in ms (the repository's
\* defaults are 700, 300, 10000 and 3000).
MinLoudMs == 60
MinSilenceMs == 120
RecordingTimeoutMs == 330
SilenceTimeoutMs == 250
\* A recording timeout (ms) long enough for a phrase to end by silence, and
\* the longest run of loud chunks a phrase starts with.
LongRecordingMs == 1000
MaxLoudRun == 3
\* listen() calls the capture thread makes.
MaxListens == 2
\* _record_phrase: max_noise and min_noise.
max_noise == 25
min_noise == 0
\* listener.energy_ratio (1.5) and listener.multiplier (1.0), in thousandths.
energy_ratio == 1500
multiplier == 1000

\* sec_per_buffer values (ms) the model runs with; 64 is 1024 / 16000.
SecPerBufferChoices == {64, 125}
\* Sample amplitudes of the chunks the device delivers.
Amplitudes == {100, 1000}
\* Thresholds (thousandths) an ambient-noise recalibration may arrive at.
ThresholdChoices == {150000, 300000}

Min(a, b) == IF a < b THEN a ELSE b

(* ------------------------------------------------------------------ *)
(* State                                                              *)
(* ------------------------------------------------------------------ *)

VARIABLES
    \* MutableStream
    muted,           \* MutableStream.muted
    read_lock,       \* owner of MutableStream.read_lock, or "free"
    wrapped_stream,  \* the device stream: "started", "stopped", "closed";
                     \* "None" once close() has dropped the reference
    tpc,             \* position of each thread working on the stream
    outcome,         \* how each thread's last call ended
    size,            \* read(): the size argument (frames)
    of_exc,          \* read(): the of_exc argument
    remaining,       \* read(): frames still to read
    frames,          \* read(): bytes accumulated so far
    result,          \* read(): the returned buffer
    \* MutableMicrophone
    mic_muted,       \* MutableMicrophone.muted
    stream,          \* MutableMicrophone.stream: "None" or "open"
    audio,           \* MutableMicrophone.audio: "None", "open", "terminated"
    mpc,             \* position of the thread that owns the microphone
    mic_op,          \* the microphone operation last called
    mic_outcome,     \* how it ended: "ok" or the exception it raised
    \* ResponsiveRecognizer
    config,          \* the listener configuration read by __init__ (times in ms)
    stop_signaled,   \* self._stop_signaled
    listen_triggered,    \* self._listen_triggered
    should_adjust_noise, \* self._should_adjust_noise
    wait_request,    \* whether trigger_ambient_noise_adjustment() was called
                     \* during the trigger wait now going on, with no
                     \* recalibration begun since
    energy_threshold,    \* self.energy_threshold, in thousandths
    signals,         \* the named signals now present on the signal channel
    events,          \* what bus.emit has sent, in order
    pc,              \* position of the capture thread
    ret,             \* where _record_phrase returns to
    calls,           \* listen() calls made so far
    listen_result,   \* how the last listen() call ended
    results,         \* how each listen() call so far ended, in order
    steps,           \* what the current listen() call has done, in order
    \* _record_phrase: arguments and locals
    sec_per_buffer,  \* in ms
    stream_handler,  \* whether the `stream` argument (a sink) was given
    sink,            \* the chunks sent to it by stream_chunk
    ww_frames,       \* pre-buffered chunks still to consume
    num_loud_chunks,
    noise,           \* in thousandths
    silence_duration,    \* in ms
    num_chunks,
    byte_data,
    phrase_complete

streamVars == <<muted, read_lock, wrapped_stream, tpc, outcome, size, of_exc,
                remaining, frames, result>>

micVars == <<mic_muted, stream, audio, mpc, mic_op, mic_outcome>>

recogVars == <<config, stop_signaled, listen_triggered, should_adjust_noise,
               wait_request, energy_threshold, signals, events, pc, ret, calls,
               listen_result, results, steps>>

phraseVars == <<sec_per_buffer, stream_handler, sink, ww_frames, num_loud_chunks, noise,
                silence_duration, num_chunks, byte_data, phrase_complete>>

vars == <<streamVars, micVars, recogVars, phraseVars>>

(* ------------------------------------------------------------------ *)
(* MutableStream                                                      *)
(* ------------------------------------------------------------------ *)

Threads == {"reader", "muter", "unmuter", "closer"}

\* b'\x00' * num_bytes
get_silence(num_bytes) == [i \in 1..num_bytes |-> 0]

\* A silence buffer of one whole chunk, CHUNK samples wide.
chunk_sized_silence == get_silence(CHUNK * SAMPLE_WIDTH)

\* self.muted_buffer = b''.join([b'\x00' * self.SAMPLE_WIDTH])
muted_buffer == [i \in 1..SAMPLE_WIDTH |-> 0]

\* What wrapped_stream.read(n) delivers: n frames of SAMPLE_WIDTH bytes each.
\* A byte that comes from the device is written 1, so that device content can
\* be told from the zero bytes of a silence buffer.
DeviceRead(n) == [i \in 1..(n * SAMPLE_WIDTH) |-> 1]

\* The byte length of a read of n frames that runs to completion.
RequestedBytes(n) == n * SAMPLE_WIDTH

\* A `with` block that would keep the lock when it is left.
KeepLock(t) == read_lock' = read_lock

\* Leaving a `with self.read_lock:` block, normally or by an exception.
Release(t) == read_lock' = IF read_lock = t THEN "free" ELSE read_lock

Goto(t, p) == tpc' = [tpc EXCEPT ![t] = p]
Ends(t, how) == outcome' = [outcome EXCEPT ![t] = how]

\* read(size, of_exc): the call, before the lock is requested.
ReadCall ==
    /\ tpc["reader"] = "idle"
    /\ \E n \in 1..MaxSize, e \in BOOLEAN :
          /\ size' = n
          /\ of_exc' = e
          /\ remaining' = n
    /\ frames' = <<>>
    /\ result' = <<>>
    /\ Goto("reader", "acquire")
    /\ Ends("reader", "running")
    /\ UNCHANGED <<muted, read_lock, wrapped_stream>>

\* with self.read_lock:
ReadAcquire ==
    /\ tpc["reader"] = "acquire"
    /\ read_lock = "free"
    /\ read_lock' = "reader"
    /\ Goto("reader", "loop")
    /\ UNCHANGED <<muted, wrapped_stream, outcome, size, of_exc, remaining,
                   frames, result>>

\* The loop test found the read complete: the lock is released.
ReadLoopExit ==
    /\ tpc["reader"] = "loop"
    /\ remaining <= 0
    /\ Release("reader")
    /\ Goto("reader", "latency")
    /\ UNCHANGED <<muted, wrapped_stream, outcome, size, of_exc, remaining,
                   frames, result>>

\* A read that would not look at the muted flag and read the device anyway.
ReadIgnoringMute ==
    /\ tpc["reader"] = "loop"
    /\ remaining > 0
    /\ muted
    /\ frames' = frames \o DeviceRead(remaining)
    /\ remaining' = 0
    /\ UNCHANGED <<muted, read_lock, wrapped_stream, tpc, outcome, size,
                   of_exc, result>>

\* if self.muted: return self.muted_buffer
ReadMuted ==
    /\ tpc["reader"] = "loop"
    /\ remaining > 0
    /\ muted
    /\ result' = muted_buffer
    /\ Release("reader")
    /\ Goto("reader", "idle")
    /\ Ends("reader", "silence")
    /\ UNCHANGED <<muted, wrapped_stream, size, of_exc, remaining, frames>>

\* One pass of the loop body with the stream unmuted and the device running.
ReadDevice ==
    /\ tpc["reader"] = "loop"
    /\ remaining > 0
    /\ ~muted
    /\ wrapped_stream = "started"
    /\ \E avail \in 0..MaxAvail, overflow \in BOOLEAN :
          LET to_read == Min(avail, remaining) IN
          IF to_read <= 0
          THEN \* sleep(.01); continue
               /\ Goto("reader", "sleep")
               /\ UNCHANGED <<read_lock, outcome, remaining, frames>>
          ELSE IF overflow /\ of_exc
          THEN \* the device read raises IOError out of the with block
               /\ Release("reader")
               /\ Goto("reader", "idle")
               /\ Ends("reader", "raised")
               /\ UNCHANGED <<remaining, frames>>
          ELSE /\ frames' = frames \o DeviceRead(to_read)
               /\ remaining' = remaining - to_read
               /\ UNCHANGED <<read_lock, tpc, outcome>>
    /\ UNCHANGED <<muted, wrapped_stream, size, of_exc, result>>

\* The loop body with the stream unmuted and the device not running: a closed
\* or dropped stream raises; a stopped one raises or reports nothing to read.
ReadNoDevice ==
    /\ tpc["reader"] = "loop"
    /\ remaining > 0
    /\ ~muted
    /\ wrapped_stream # "started"
    /\ \/ /\ Release("reader")
          /\ Goto("reader", "idle")
          /\ Ends("reader", "raised")
       \/ /\ wrapped_stream = "stopped"
          /\ Goto("reader", "sleep")
          /\ UNCHANGED <<read_lock, outcome>>
    /\ UNCHANGED <<muted, wrapped_stream, size, of_exc, remaining, frames,
                   result>>

\* sleep(.01) is over; back to the loop test, the lock still held.
ReadWake ==
    /\ tpc["reader"] = "sleep"
    /\ Goto("reader", "loop")
    /\ UNCHANGED <<muted, read_lock, wrapped_stream, outcome, size, of_exc,
                   remaining, frames, result>>

\* After the with block: get_input_latency(), join the frames, return.
ReadReturn ==
    /\ tpc["reader"] = "latency"
    /\ IF wrapped_stream = "None"
       THEN /\ Ends("reader", "raised")
            /\ UNCHANGED result
       ELSE /\ result' = frames
            /\ Ends("reader", "data")
    /\ Goto("reader", "idle")
    /\ UNCHANGED <<muted, read_lock, wrapped_stream, size, of_exc, remaining,
                   frames>>

\* mute() / unmute(): the call, then `with self.read_lock:`.
ToggleCall(t) ==
    /\ t \in {"muter", "unmuter"}
    /\ tpc[t] = "idle"
    /\ Goto(t, "acquire")
    /\ Ends(t, "running")
    /\ UNCHANGED <<muted, read_lock, wrapped_stream, size, of_exc, remaining,
                   frames, result>>

ToggleAcquire(t) ==
    /\ t \in {"muter", "unmuter"}
    /\ tpc[t] = "acquire"
    /\ read_lock = "free"
    /\ read_lock' = t
    /\ Goto(t, "flag")
    /\ UNCHANGED <<muted, wrapped_stream, outcome, size, of_exc, remaining,
                   frames, result>>

\* self.muted = True (mute) / self.muted = False (unmute)
ToggleFlag(t) ==
    /\ t \in {"muter", "unmuter"}
    /\ tpc[t] = "flag"
    /\ muted' = (t = "muter")
    /\ Goto(t, "device")
    /\ UNCHANGED <<read_lock, wrapped_stream, outcome, size, of_exc,
                   remaining, frames, result>>

\* self.wrapped_stream.stop_stream() / start_stream(), then the lock is
\* released. The device call fails on a closed or dropped stream and may fail
\* on a live one (device fault); the exception leaves through the with block.
ToggleDevice(t) ==
    /\ t \in {"muter", "unmuter"}
    /\ tpc[t] = "device"
    /\ \E fault \in BOOLEAN :
          IF wrapped_stream \in {"closed", "None"} \/ fault
          THEN /\ Ends(t, "raised")
               /\ UNCHANGED wrapped_stream
          ELSE /\ wrapped_stream' = IF t = "muter" THEN "stopped" ELSE "started"
               /\ Ends(t, "done")
    /\ Release(t)
    /\ Goto(t, "idle")
    /\ UNCHANGED <<muted, size, of_exc, remaining, frames, result>>

\* is_stopped(): the device's answer, or True when the query raises.
IsStopped ==
    /\ tpc["closer"] = "idle"
    /\ Ends("closer", IF wrapped_stream = "started" THEN "running_stream"
                      ELSE "stopped_stream")
    /\ UNCHANGED <<muted, read_lock, wrapped_stream, tpc, size, of_exc,
                   remaining, frames, result>>

\* stop_stream(): return self.wrapped_stream.stop_stream()
StopStream ==
    /\ tpc["closer"] = "idle"
    /\ \E fault \in BOOLEAN :
          IF wrapped_stream \in {"closed", "None"} \/ fault
          THEN /\ Ends("closer", "raised")
               /\ UNCHANGED wrapped_stream
          ELSE /\ wrapped_stream' = "stopped"
               /\ Ends("closer", "done")
    /\ UNCHANGED <<muted, read_lock, tpc, size, of_exc, remaining, frames,
                   result>>

\* close(): self.wrapped_stream.close() ...
CloseDevice ==
    /\ tpc["closer"] = "idle"
    /\ \E fault \in BOOLEAN :
          IF wrapped_stream = "None" \/ fault
          THEN /\ Ends("closer", "raised")
               /\ UNCHANGED <<wrapped_stream, tpc>>
          ELSE /\ wrapped_stream' = "closed"
               /\ Ends("closer", "running")
               /\ Goto("closer", "closing")
    /\ UNCHANGED <<muted, read_lock, size, of_exc, remaining, frames, result>>

\* ... self.wrapped_stream = None
CloseDrop ==
    /\ tpc["closer"] = "closing"
    /\ wrapped_stream' = "None"
    /\ Ends("closer", "done")
    /\ Goto("closer", "idle")
    /\ UNCHANGED <<muted, read_lock, size, of_exc, remaining, frames, result>>

\* A thread is inside the part of its operation that touches the wrapped
\* device stream or the muted flag.
InCritical(t) ==
    CASE t = "reader" -> tpc[t] \in {"loop", "sleep"}
      [] t \in {"muter", "unmuter"} -> tpc[t] \in {"flag", "device"}
      [] OTHER -> tpc[t] = "closing"


(* ------------------------------------------------------------------ *)
(* MutableMicrophone                                                  *)
(* ------------------------------------------------------------------ *)

\* MutableStream.__init__: its statements in the order the constructor runs
\* them; "mute" is the conditional call `if muted: self.mute()`.
InitSteps ==
    <<"wrapped_stream", "muted", "mute", "SAMPLE_WIDTH", "muted_buffer",
      "read_lock">>

Position(step) == CHOOSE i \in 1..Len(InitSteps) : InitSteps[i] = step

\* mute() enters `with self.read_lock:`; called before the constructor has
\* assigned read_lock it raises AttributeError.
ConstructorRaises(m) == m /\ Position("mute") < Position("read_lock")

MicEnds(op, how) == mic_op' = op /\ mic_outcome' = how

\* MutableMicrophone.mute() / unmute(): set the flag, then delegate to the
\* stream when one is open (the stream call under its lock, taken as one
\* step). The device call fails on a closed or dropped device stream and may
\* fail on a live one.
SourceToggleRaises(fault) ==
    stream = "open" /\ (wrapped_stream \in {"closed", "None"} \/ fault)

SourceToggle(m, fault) ==
    /\ read_lock = "free"
    /\ mic_muted' = m
    /\ IF stream = "open"
       THEN /\ muted' = m
            /\ wrapped_stream' =
                  IF SourceToggleRaises(fault) THEN wrapped_stream
                  ELSE IF m THEN "stopped" ELSE "started"
       ELSE UNCHANGED <<muted, wrapped_stream>>

\* mute() / unmute() called on the microphone from outside listen().
MicToggle(m) ==
    /\ mpc = "idle"
    /\ \E fault \in BOOLEAN :
          /\ SourceToggle(m, fault)
          /\ MicEnds(IF m THEN "mute" ELSE "unmute",
                     IF SourceToggleRaises(fault) THEN "IOError" ELSE "ok")
    /\ UNCHANGED <<read_lock, tpc, outcome, size, of_exc, remaining, frames,
                   result, stream, audio, mpc>>

\* __enter__ / _start is called.
MicStartCall ==
    /\ mpc = "idle"
    /\ mpc' = "start_audio"
    /\ MicEnds("start", "running")
    /\ UNCHANGED <<streamVars, mic_muted, stream, audio>>

\* __exit__ / _stop, or restart(), is called on a microphone that has been
\* started before.
MicStopCall(op) ==
    /\ op \in {"stop", "restart"}
    /\ mpc = "idle"
    /\ audio # "None"
    /\ mpc' = "stop_query"
    /\ MicEnds(op, "running")
    /\ UNCHANGED <<streamVars, mic_muted, stream, audio>>

\* _stop: `if not self.stream.is_stopped():`. With no stream the attribute
\* access raises and the handler of _stop takes over; is_stopped() itself
\* answers True when the device query fails.
MicStopQuery ==
    /\ mpc = "stop_query"
    /\ IF stream = "None"
       THEN mpc' = "stop_drop"
       ELSE \E fault \in BOOLEAN :
               LET stopped == fault \/ wrapped_stream # "started" IN
               mpc' = IF stopped THEN "stop_close" ELSE "stop_stop"
    /\ UNCHANGED <<streamVars, mic_muted, stream, audio, mic_op, mic_outcome>>

\* _stop: self.stream.stop_stream(); a failure is caught by _stop, which then
\* skips close().
MicStopStream ==
    /\ mpc = "stop_stop"
    /\ \E fault \in BOOLEAN :
          IF fault
          THEN /\ mpc' = "stop_drop"
               /\ UNCHANGED wrapped_stream
          ELSE /\ mpc' = "stop_close"
               /\ wrapped_stream' = "stopped"
    /\ UNCHANGED <<muted, read_lock, tpc, outcome, size, of_exc, remaining,
                   frames, result, mic_muted, stream, audio, mic_op,
                   mic_outcome>>

\* _stop: self.stream.close(); a failure is caught by _stop.
MicStopClose ==
    /\ mpc = "stop_close"
    /\ \E fault \in BOOLEAN :
          wrapped_stream' = IF fault THEN wrapped_stream ELSE "None"
    /\ mpc' = "stop_drop"
    /\ UNCHANGED <<muted, read_lock, tpc, outcome, size, of_exc, remaining,
                   frames, result, mic_muted, stream, audio, mic_op,
                   mic_outcome>>

\* _stop: self.stream = None; self.audio.terminate(). restart() goes on to
\* _start.
MicStopDrop ==
    /\ mpc = "stop_drop"
    /\ stream' = "None"
    /\ audio' = "terminated"
    /\ IF mic_op = "restart"
       THEN /\ mpc' = "start_audio"
            /\ UNCHANGED mic_outcome
       ELSE /\ mpc' = "idle"
            /\ mic_outcome' = "ok"
    /\ UNCHANGED <<streamVars, mic_muted, mic_op>>

\* _start: the assertion, then self.audio = pyaudio.PyAudio().
MicStartAudio ==
    /\ mpc = "start_audio"
    /\ IF stream # "None"
       THEN /\ mpc' = "idle"
            /\ mic_outcome' = "AssertionError"
            /\ UNCHANGED audio
       ELSE /\ mpc' = "start_open"
            /\ audio' = "open"
            /\ UNCHANGED mic_outcome
    /\ UNCHANGED <<streamVars, mic_muted, stream, mic_op>>

\* _start: self.stream = MutableStream(self.audio.open(...), self.format,
\* self.muted). The device may refuse to open; the constructor raises when
\* it calls mute() before read_lock exists, and self.stream is then never
\* assigned.
MicStartOpen ==
    /\ mpc = "start_open"
    /\ \E fault \in BOOLEAN :
          IF fault
          THEN /\ mic_outcome' = "IOError"
               /\ UNCHANGED <<muted, wrapped_stream, read_lock, stream>>
          ELSE IF ConstructorRaises(mic_muted)
          THEN /\ mic_outcome' = "AttributeError"
               /\ muted' = mic_muted
               /\ wrapped_stream' = "started"
               /\ UNCHANGED <<read_lock, stream>>
          ELSE /\ mic_outcome' = "ok"
               /\ muted' = mic_muted
               /\ wrapped_stream' = IF mic_muted THEN "stopped" ELSE "started"
               /\ read_lock' = "free"
               /\ stream' = "open"
    /\ mpc' = "idle"
    /\ UNCHANGED <<tpc, outcome, size, of_exc, remaining, frames, result,
                   mic_muted, audio, mic_op>>


(* ------------------------------------------------------------------ *)
(* ResponsiveRecognizer: energy of a chunk, the dynamic threshold     *)
(* ------------------------------------------------------------------ *)

RECURSIVE Pow(_, _)
Pow(b, e) == IF e = 0 THEN 1 ELSE b * Pow(b, e - 1)

RECURSIVE SqrtBetween(_, _, _)
SqrtBetween(n, lo, hi) ==
    IF lo >= hi THEN lo
    ELSE LET mid == (lo + hi + 1) \div 2 IN
         IF mid * mid <= n THEN SqrtBetween(n, mid, hi)
         ELSE SqrtBetween(n, lo, mid - 1)

\* The integer square root.
ISqrt(n) == SqrtBetween(n, 0, Min(n, 46340))

\* A chunk of CHUNK frames as the device delivers it: every sample has
\* amplitude a, stored little-endian in SAMPLE_WIDTH bytes.
RealChunk(a) ==
    [i \in 1..(CHUNK * SAMPLE_WIDTH) |->
        (a \div Pow(256, (i - 1) % SAMPLE_WIDTH)) % 256]

\* Sample k of a buffer: its SAMPLE_WIDTH bytes read little-endian.
RECURSIVE SampleFrom(_, _, _)
SampleFrom(chunk, k, j) ==
    IF j >= SAMPLE_WIDTH THEN 0
    ELSE chunk[(k - 1) * SAMPLE_WIDTH + j + 1] * Pow(256, j)
         + SampleFrom(chunk, k, j + 1)

RECURSIVE SumSquares(_, _)
SumSquares(chunk, k) ==
    IF k = 0 THEN 0
    ELSE SampleFrom(chunk, k, 0) * SampleFrom(chunk, k, 0)
         + SumSquares(chunk, k - 1)

\* calc_energy: audioop.rms(sound_chunk, sample_width)
calc_energy(chunk) ==
    LET n == Len(chunk) \div SAMPLE_WIDTH IN
    IF n = 0 THEN 0 ELSE ISqrt(SumSquares(chunk, n) \div n)

\* self.dynamic_energy_threshold of the Recognizer base class.
dynamic_energy_threshold == TRUE

\* self.dynamic_energy_adjustment_damping ** seconds_per_buffer, in
\* thousandths: 0.15 ** 0.064 = 0.886, 0.15 ** 0.125 = 0.789.
Damping(spb) ==
    CASE spb = 64 -> 886
      [] spb = 125 -> 789
      [] OTHER -> 1000 - ((1000 - 789) * Min(spb, 125)) \div 125

\* An adjustment that would not test energy > 0.
adjust_threshold_any_energy(energy, spb) ==
    LET damping == Damping(spb)
        target_energy == energy * energy_ratio
    IN  (energy_threshold * damping + target_energy * (1000 - damping))
            \div 1000

\* _adjust_threshold(energy, seconds_per_buffer): the new energy_threshold.
adjust_threshold(energy, spb) ==
    IF dynamic_energy_threshold /\ energy > 0
    THEN LET damping == Damping(spb)
             target_energy == energy * energy_ratio
         IN  (energy_threshold * damping + target_energy * (1000 - damping))
                 \div 1000
    ELSE energy_threshold

\* A recognizer that would judge every chunk quiet.
never_loud(energy) == FALSE

\* is_loud = energy > self.energy_threshold * self.multiplier
is_loud(energy) == energy * 1000000 > energy_threshold * multiplier

(* ------------------------------------------------------------------ *)
(* ResponsiveRecognizer._record_phrase                                *)
(* ------------------------------------------------------------------ *)

increase_noise(level) ==
    IF level < max_noise * 1000 THEN level + 200 * sec_per_buffer ELSE level

\* A noise level that would fall twice as fast.
decrease_noise_fast(level) ==
    IF level > min_noise * 1000 THEN level - 200 * sec_per_buffer ELSE level

decrease_noise(level) ==
    IF level > min_noise * 1000 THEN level - 100 * sec_per_buffer ELSE level

min_loud_chunks == config.min_loud_sec \div sec_per_buffer
max_chunks == config.recording_timeout \div sec_per_buffer
max_chunks_of_silence ==
    config.recording_timeout_with_silence \div sec_per_buffer

\* Lines 243-278: the locals, the sentinel, stream.stream_start().
RecordStart ==
    /\ pc = "rec_start"
    /\ num_loud_chunks' = 0
    /\ noise' = 0
    /\ silence_duration' = 0
    /\ num_chunks' = 0
    /\ byte_data' = get_silence(SAMPLE_WIDTH)
    /\ phrase_complete' = FALSE
    /\ pc' = "rec_test"
    /\ UNCHANGED <<streamVars, micVars, config, stop_signaled,
                   listen_triggered, should_adjust_noise,
                   wait_request, energy_threshold,
                   signals, events, ret, calls, listen_result, results,
                   steps, sec_per_buffer, stream_handler, sink, ww_frames>>

\* Two other loop conditions, to compare with the one in the code: one that
\* also reads the stop flag, one that allows a chunk past the cap.
LoopContinuesUnlessStopped ==
    num_chunks < max_chunks /\ ~phrase_complete /\ ~stop_signaled

LoopContinuesPastCap == num_chunks <= max_chunks /\ ~phrase_complete

\* while num_chunks < max_chunks and not phrase_complete:
LoopContinues == num_chunks < max_chunks /\ ~phrase_complete

RecordTest ==
    /\ pc = "rec_test"
    /\ pc' = IF LoopContinues THEN "rec_chunk" ELSE "rec_return"
    /\ UNCHANGED <<streamVars, micVars, config, stop_signaled,
                   listen_triggered, should_adjust_noise,
                   wait_request, energy_threshold,
                   signals, events, ret, calls, listen_result, results,
                   steps, phraseVars>>

\* The completion test of lines 300-311 after a chunk: noise level n, silence
\* duration d, l loud chunks and c chunks so far.
QuietWithoutSilence(n, d) == n <= min_noise * 1000

QuietLongEnough(n, d) ==
    n <= min_noise * 1000 /\ ~(d < config.min_silence_at_end)

CompletionTest(n, d, l, c) ==
    /\ QuietLongEnough(n, d)
    /\ (l > min_loud_chunks \/ c > max_chunks_of_silence)

\* silence_duration after a chunk that left the noise level at n.
SilenceAfter(n) ==
    IF n <= min_noise * 1000 THEN silence_duration + sec_per_buffer ELSE 0

\* A loop body that would not forward the chunk to the sink.
ConsumeUnstreamed(chunk) ==
    LET energy == calc_energy(chunk)
        loud == is_loud(energy)
        n == IF loud THEN increase_noise(noise) ELSE decrease_noise(noise)
        l == IF loud THEN num_loud_chunks + 1 ELSE num_loud_chunks
        d == SilenceAfter(n)
        c == num_chunks + 1
    IN  /\ byte_data' = byte_data \o chunk
        /\ num_chunks' = c
        /\ sink' = sink
        /\ noise' = n
        /\ num_loud_chunks' = l
        /\ energy_threshold' =
              IF loud THEN energy_threshold
              ELSE adjust_threshold(energy, sec_per_buffer)
        /\ silence_duration' = d
        /\ phrase_complete' =
              (CompletionTest(n, d, l, c) \/ "buttonPress" \in signals)
        /\ signals' = signals \ {"buttonPress"}

\* Lines 284-315: the loop body once the chunk is in hand.
Consume(chunk) ==
    \E energy \in {calc_energy(chunk)} :
    LET loud == is_loud(energy)
        n == IF loud THEN increase_noise(noise) ELSE decrease_noise(noise)
        l == IF loud THEN num_loud_chunks + 1 ELSE num_loud_chunks
        d == SilenceAfter(n)
        c == num_chunks + 1
    IN  /\ byte_data' = byte_data \o chunk
        /\ num_chunks' = c
        /\ sink' = IF stream_handler THEN Append(sink, chunk) ELSE sink
        /\ noise' = n
        /\ num_loud_chunks' = l
        /\ energy_threshold' =
              IF loud THEN energy_threshold
              ELSE adjust_threshold(energy, sec_per_buffer)
        /\ silence_duration' = d
        \* check_for_signal('buttonPress') consumes the signal
        /\ phrase_complete' =
              (CompletionTest(n, d, l, c) \/ "buttonPress" \in signals)
        /\ signals' = signals \ {"buttonPress"}

\* One pass of the loop with a chunk obtained: from ww_frames, else from
\* record_sound_chunk, which returns the silence buffer when the stream is
\* muted and device samples otherwise.
RecordChunk ==
    /\ pc = "rec_chunk"
    /\ IF ww_frames # <<>>
       THEN /\ Consume(Head(ww_frames))
            /\ ww_frames' = Tail(ww_frames)
       ELSE /\ read_lock = "free"
            /\ stream = "open"
            /\ UNCHANGED ww_frames
            /\ IF muted
               THEN Consume(muted_buffer)
               ELSE /\ wrapped_stream = "started"
                    /\ \E a \in Amplitudes :
                          \E chunk \in {RealChunk(a)} : Consume(chunk)
    /\ pc' = "rec_test"
    /\ UNCHANGED <<streamVars, micVars, config, stop_signaled,
                   listen_triggered, should_adjust_noise,
                   wait_request, events, ret, calls,
                   listen_result, results, steps, sec_per_buffer,
                   stream_handler>>

\* record_sound_chunk raises: a device overflow with overflow_exception set,
\* or an unmuted stream whose device is not running. The exception leaves
\* _record_phrase and its caller.
RecordReadRaises ==
    /\ pc = "rec_chunk"
    /\ ww_frames = <<>>
    /\ read_lock = "free"
    /\ ~muted
    /\ config.overflow_exc \/ wrapped_stream # "started"
    /\ pc' = IF ret = "done" THEN "done" ELSE "idle"
    /\ listen_result' = "IOError:read"
    /\ results' = IF ret = "done" THEN results
                  ELSE Append(results, "IOError:read")
    /\ UNCHANGED <<streamVars, micVars, config, stop_signaled,
                   listen_triggered, should_adjust_noise,
                   wait_request, energy_threshold,
                   signals, events, ret, calls, steps, phraseVars>>

\* return byte_data
RecordReturn ==
    /\ pc = "rec_return"
    /\ pc' = ret
    /\ listen_result' = IF ret = "done" THEN "phrase" ELSE listen_result
    /\ steps' = Append(steps, "record")
    /\ UNCHANGED <<streamVars, micVars, config, stop_signaled,
                   listen_triggered, should_adjust_noise,
                   wait_request, energy_threshold,
                   signals, events, ret, calls, results, phraseVars>>

(* ------------------------------------------------------------------ *)
(* ResponsiveRecognizer: calls from other threads, the signal channel *)
(* ------------------------------------------------------------------ *)

\* stop()
Stop ==
    /\ stop_signaled' = TRUE
    /\ UNCHANGED <<streamVars, micVars, config, listen_triggered,
                   should_adjust_noise,
                   wait_request, energy_threshold, signals, events,
                   pc, ret, calls, listen_result, results, steps,
                   phraseVars>>

\* trigger_listen()
TriggerListen ==
    /\ listen_triggered' = TRUE
    /\ UNCHANGED <<streamVars, micVars, config, stop_signaled,
                   should_adjust_noise,
                   wait_request, energy_threshold, signals, events,
                   pc, ret, calls, listen_result, results, steps,
                   phraseVars>>

\* The positions of the capture thread inside the loop of
\* _wait_for_listen_signal.
WaitPositions ==
    {"w_test", "w_signal", "w_debounce", "w_adjust", "w_adjusting",
     "w_clearing", "w_sleep"}

\* trigger_ambient_noise_adjustment(), called by another thread; a call made
\* while the capture thread is in the trigger wait is noted.
TriggerAmbientNoiseAdjustment ==
    /\ should_adjust_noise' = TRUE
    /\ wait_request' = (wait_request \/ pc \in WaitPositions)
    /\ UNCHANGED <<streamVars, micVars, config, stop_signaled,
                   listen_triggered, energy_threshold, signals, events,
                   pc, ret, calls, listen_result, results, steps,
                   phraseVars>>

\* Another process raises a named signal.
SignalSet(name) ==
    /\ name \notin signals
    /\ signals' = signals \cup {name}
    /\ UNCHANGED <<streamVars, micVars, config, stop_signaled,
                   listen_triggered, should_adjust_noise,
                   wait_request, energy_threshold,
                   events, pc, ret, calls, listen_result, results, steps,
                   phraseVars>>

\* Another process consumes the buttonPress signal (it meant "stop").
SignalTaken ==
    /\ "buttonPress" \in signals
    /\ signals' = signals \ {"buttonPress"}
    /\ UNCHANGED <<streamVars, micVars, config, stop_signaled,
                   listen_triggered, should_adjust_noise,
                   wait_request, energy_threshold,
                   events, pc, ret, calls, listen_result, results, steps,
                   phraseVars>>

(* ------------------------------------------------------------------ *)
(* ResponsiveRecognizer.listen and _wait_for_listen_signal            *)
(* ------------------------------------------------------------------ *)

\* The parts of the state listen() and the trigger wait never write.
listenFrame == <<read_lock, tpc, outcome, size, of_exc, remaining, frames,
                 result, stream, audio, mpc, mic_op, mic_outcome, config,
                 ret, sec_per_buffer, stream_handler>>

\* The locals of _record_phrase are gone when listen() has returned.
PhraseLocalsGone ==
    /\ sink' = <<>>
    /\ ww_frames' = <<>>
    /\ num_loud_chunks' = 0
    /\ noise' = 0
    /\ silence_duration' = 0
    /\ num_chunks' = 0
    /\ byte_data' = <<>>
    /\ phrase_complete' = FALSE

phraseLocals == <<sink, ww_frames, num_loud_chunks, noise, silence_duration,
                  num_chunks, byte_data, phrase_complete>>

\* listen() ends: by a return value or by an exception.
ListenEndsWith(how) ==
    /\ listen_result' = how
    /\ results' = Append(results, how)
    /\ pc' = "idle"

\* The capture thread calls listen(source, bus, stream).
ListenCall ==
    /\ pc = "idle"
    /\ calls < MaxListens
    /\ calls' = calls + 1
    /\ listen_result' = "running"
    /\ steps' = <<>>
    /\ pc' = "l_mute"
    /\ UNCHANGED <<muted, mic_muted, wrapped_stream, listenFrame,
                   stop_signaled, listen_triggered, should_adjust_noise,
                   wait_request, energy_threshold, signals, events, results,
                   phraseLocals>>

\* source.mute() (line 430) and source.unmute() (line 436); a device fault
\* leaves listen() as an exception.
ListenToggle(m) ==
    /\ pc = IF m THEN "l_mute" ELSE "l_unmute"
    /\ \E fault \in BOOLEAN :
          /\ SourceToggle(m, fault)
          /\ IF SourceToggleRaises(fault)
             THEN /\ ListenEndsWith(IF m THEN "IOError:mute"
                                    ELSE "IOError:unmute")
                  /\ UNCHANGED steps
             ELSE /\ pc' = IF m THEN "w_test" ELSE "l_begin"
                  /\ steps' = Append(steps, IF m THEN "mute" ELSE "unmute")
                  /\ UNCHANGED <<listen_result, results>>
    /\ UNCHANGED <<listenFrame, stop_signaled, listen_triggered,
                   should_adjust_noise,
                   wait_request, energy_threshold, signals, events,
                   calls, phraseLocals>>

\* while not self._stop_signaled and ...: the first conjunct. A wait that
\* ends here ended by the stop flag, not by a trigger.
WaitTest ==
    /\ pc = "w_test"
    /\ IF stop_signaled
       THEN /\ pc' = "cue"
            /\ steps' = Append(steps, "wait_stopped")
       ELSE /\ pc' = "w_signal"
            /\ UNCHANGED steps
    /\ UNCHANGED <<muted, mic_muted, wrapped_stream, listenFrame,
                   stop_signaled, listen_triggered, should_adjust_noise,
                   wait_request,
                   energy_threshold, signals, events, calls, listen_result,
                   results, phraseLocals>>

\* _is_listen_signaled, lines 328-333: the startListening signal (consumed)
\* or the trigger flag; else a first look at buttonPress, which stays.
WaitSignal ==
    /\ pc = "w_signal"
    /\ signals' = signals \ {"startListening"}
    /\ IF "startListening" \in signals \/ listen_triggered
       THEN /\ pc' = "cue"
            /\ steps' = Append(steps, "wait")
       ELSE /\ pc' = IF "buttonPress" \in signals THEN "w_debounce"
                     ELSE "w_adjust"
            /\ UNCHANGED steps
    /\ UNCHANGED <<muted, mic_muted, wrapped_stream, listenFrame,
                   stop_signaled, listen_triggered, should_adjust_noise,
                   wait_request,
                   energy_threshold, events, calls, listen_result, results,
                   phraseLocals>>

\* _is_listen_signaled, lines 336-343: after sleep(0.25) the buttonPress
\* signal is checked again, and consumed if still there.
WaitDebounce ==
    /\ pc = "w_debounce"
    /\ signals' = signals \ {"buttonPress"}
    /\ IF "buttonPress" \in signals
       THEN /\ pc' = "cue"
            /\ steps' = Append(steps, "wait")
       ELSE /\ pc' = "w_adjust"
            /\ UNCHANGED steps
    /\ UNCHANGED <<muted, mic_muted, wrapped_stream, listenFrame,
                   stop_signaled, listen_triggered, should_adjust_noise,
                   wait_request,
                   energy_threshold, events, calls, listen_result, results,
                   phraseLocals>>

\* Lines 375-376: the adjustAmbientNoise signal (consumed) or the flag.
WaitAdjustCheck ==
    /\ pc = "w_adjust"
    /\ signals' = signals \ {"adjustAmbientNoise"}
    /\ pc' = IF "adjustAmbientNoise" \in signals \/ should_adjust_noise
             THEN "w_adjusting" ELSE "w_sleep"
    /\ UNCHANGED <<muted, mic_muted, wrapped_stream, listenFrame,
                   stop_signaled, listen_triggered, should_adjust_noise,
                   wait_request,
                   energy_threshold, events, calls, listen_result, results,
                   steps, phraseLocals>>

\* _adjust_ambient_noise, lines 361-364: adjust_for_ambient_noise re-derives
\* the threshold from what the source delivers. Every request made before
\* this point is served by this recalibration.
AdjustAmbientNoise ==
    /\ pc \in {"w_adjusting", "l_adjusting"}
    /\ energy_threshold' \in ThresholdChoices
    /\ wait_request' = FALSE
    /\ IF pc = "w_adjusting"
       THEN /\ pc' = "w_clearing"
            /\ UNCHANGED steps
       ELSE /\ pc' = "l_clearing"
            /\ steps' = Append(steps, "recalibrate")
    /\ UNCHANGED <<muted, mic_muted, wrapped_stream, listenFrame,
                   stop_signaled, listen_triggered, should_adjust_noise,
                   signals, events, calls, listen_result, results,
                   phraseLocals>>

\* _adjust_ambient_noise, line 365: self._should_adjust_noise = False, and
\* the return to the wait loop or to listen().
AdjustDone ==
    /\ pc \in {"w_clearing", "l_clearing"}
    /\ should_adjust_noise' = FALSE
    /\ pc' = IF pc = "w_clearing" THEN "w_sleep" ELSE "l_return"
    /\ UNCHANGED <<muted, mic_muted, wrapped_stream, listenFrame,
                   stop_signaled, listen_triggered, wait_request,
                   energy_threshold, signals, events, calls, listen_result,
                   results, steps, phraseLocals>>

\* sleep(self.sec_between_signal_checks)
WaitSleep ==
    /\ pc = "w_sleep"
    /\ pc' = "w_test"
    /\ UNCHANGED <<muted, mic_muted, wrapped_stream, listenFrame,
                   stop_signaled, listen_triggered, should_adjust_noise,
                   wait_request,
                   energy_threshold, signals, events, calls, listen_result,
                   results, steps, phraseLocals>>

\* Lines 382-395: the wait is over; the cue sound is played when one is
\* configured, and a playback failure is logged.
Cue ==
    /\ pc = "cue"
    /\ steps' = IF config.listen_sound THEN Append(steps, "cue") ELSE steps
    /\ wait_request' = FALSE
    /\ pc' = "l_clear"
    /\ UNCHANGED <<muted, mic_muted, wrapped_stream, listenFrame,
                   stop_signaled, listen_triggered, should_adjust_noise,
                   energy_threshold, signals, events, calls, listen_result,
                   results, phraseLocals>>

\* A listen() that takes the stop request as served once it has seen it.
ListenClearsStop ==
    /\ pc = "l_clear"
    /\ listen_triggered' = FALSE
    /\ stop_signaled' = FALSE
    /\ pc' = "l_stopchk"
    /\ UNCHANGED <<muted, mic_muted, wrapped_stream, listenFrame,
                   should_adjust_noise, wait_request, energy_threshold,
                   signals, events, calls, listen_result, results, steps,
                   phraseLocals>>

\* self._listen_triggered = False
ListenClear ==
    /\ pc = "l_clear"
    /\ listen_triggered' = FALSE
    /\ pc' = "l_stopchk"
    /\ UNCHANGED <<muted, mic_muted, wrapped_stream, listenFrame,
                   stop_signaled, should_adjust_noise,
                   wait_request, energy_threshold,
                   signals, events, calls, listen_result, results, steps,
                   phraseLocals>>

\* A listen() that does not look at the stop flag after the wait.
StopNotObserved == FALSE

\* Whether listen() gives up after the wait: if self._stop_signaled: return
StopObserved == stop_signaled

ListenStopCheck ==
    /\ pc = "l_stopchk"
    /\ IF StopObserved
       THEN ListenEndsWith("None")
       ELSE /\ pc' = "l_unmute"
            /\ UNCHANGED <<listen_result, results>>
    /\ UNCHANGED <<muted, mic_muted, wrapped_stream, listenFrame,
                   stop_signaled, listen_triggered, should_adjust_noise,
                   wait_request,
                   energy_threshold, signals, events, calls, steps,
                   phraseLocals>>

\* bus.emit("recognizer_loop:record_begin"), then _record_phrase is called
\* with the stream argument and no ww_frames.
ListenBegin ==
    /\ pc = "l_begin"
    /\ events' = Append(events, "record_begin")
    /\ steps' = Append(steps, "record_begin")
    /\ pc' = "rec_start"
    /\ UNCHANGED <<muted, mic_muted, wrapped_stream, listenFrame,
                   stop_signaled, listen_triggered, should_adjust_noise,
                   wait_request,
                   energy_threshold, signals, calls, listen_result, results,
                   phraseLocals>>

\* _create_audio_data, bus.emit("recognizer_loop:record_end"), and the test
\* of auto_ambient_noise_adjustment.
ListenEnd ==
    /\ pc = "l_end"
    /\ events' = Append(events, "record_end")
    /\ steps' = Append(steps, "record_end")
    /\ pc' = IF config.auto_ambient_noise_adjustment THEN "l_adjusting"
             ELSE "l_return"
    /\ UNCHANGED <<muted, mic_muted, wrapped_stream, listenFrame,
                   stop_signaled, listen_triggered, should_adjust_noise,
                   wait_request,
                   energy_threshold, signals, calls, listen_result, results,
                   phraseLocals>>

\* return audio_data
ListenReturn ==
    /\ pc = "l_return"
    /\ steps' = Append(steps, "return")
    /\ ListenEndsWith("phrase")
    /\ PhraseLocalsGone
    /\ UNCHANGED <<muted, mic_muted, wrapped_stream, listenFrame,
                   stop_signaled, listen_triggered, should_adjust_noise,
                   wait_request,
                   energy_threshold, signals, events, calls>>

(* ------------------------------------------------------------------ *)
(* Specifications                                                     *)
(* ------------------------------------------------------------------ *)

\* The configuration the recognizer reads in __init__.
Configs ==
    [min_loud_sec : {MinLoudMs},
     min_silence_at_end : {MinSilenceMs},
     recording_timeout : {RecordingTimeoutMs},
     recording_timeout_with_silence : {SilenceTimeoutMs},
     overflow_exc : BOOLEAN,
     auto_ambient_noise_adjustment : BOOLEAN,
     listen_sound : BOOLEAN]

\* A recognizer as __init__ leaves it, no call of _record_phrase made.
RecognizerIdle ==
    /\ stop_signaled = FALSE
    /\ listen_triggered = FALSE
    /\ should_adjust_noise = FALSE
    /\ wait_request = FALSE
    /\ energy_threshold = 300000
    /\ signals = {}
    /\ events = <<>>
    /\ calls = 0
    /\ listen_result = "none"
    /\ results = <<>>
    /\ steps = <<>>
    /\ sink = <<>>
    /\ num_loud_chunks = 0
    /\ noise = 0
    /\ silence_duration = 0
    /\ num_chunks = 0
    /\ byte_data = <<>>
    /\ phrase_complete = FALSE

\* The recognizer plays no part.
RecognizerAbsent ==
    /\ RecognizerIdle
    /\ config = [min_loud_sec |-> MinLoudMs,
                 min_silence_at_end |-> MinSilenceMs,
                 recording_timeout |-> RecordingTimeoutMs,
                 recording_timeout_with_silence |-> SilenceTimeoutMs,
                 overflow_exc |-> FALSE,
                 auto_ambient_noise_adjustment |-> FALSE,
                 listen_sound |-> FALSE]
    /\ sec_per_buffer = 64
    /\ stream_handler = FALSE
    /\ ww_frames = <<>>
    /\ pc = "done"
    /\ ret = "done"

\* No thread is inside a MutableStream method.
ThreadsIdle ==
    /\ read_lock = "free"
    /\ tpc = [t \in Threads |-> "idle"]
    /\ outcome = [t \in Threads |-> "none"]
    /\ size = 0
    /\ of_exc = FALSE
    /\ remaining = 0
    /\ frames = <<>>
    /\ result = <<>>

\* A microphone inside its context manager, its stream open.
MicOpened ==
    /\ stream = "open"
    /\ audio = "open"
    /\ mpc = "idle"
    /\ mic_op = "none"
    /\ mic_outcome = "none"

InitStream ==
    /\ muted \in BOOLEAN
    /\ mic_muted = muted
    /\ MicOpened
    /\ wrapped_stream = IF muted THEN "stopped" ELSE "started"
    /\ ThreadsIdle
    /\ RecognizerAbsent

NextStream ==
    \/ ReadCall /\ UNCHANGED <<micVars, recogVars, phraseVars>>
    \/ ReadAcquire /\ UNCHANGED <<micVars, recogVars, phraseVars>>
    \/ ReadLoopExit /\ UNCHANGED <<micVars, recogVars, phraseVars>>
    \/ ReadMuted /\ UNCHANGED <<micVars, recogVars, phraseVars>>
    \/ ReadDevice /\ UNCHANGED <<micVars, recogVars, phraseVars>>
    \/ ReadNoDevice /\ UNCHANGED <<micVars, recogVars, phraseVars>>
    \/ ReadWake /\ UNCHANGED <<micVars, recogVars, phraseVars>>
    \/ ReadReturn /\ UNCHANGED <<micVars, recogVars, phraseVars>>
    \/ \E t \in {"muter", "unmuter"} : ToggleCall(t) /\ UNCHANGED <<micVars, recogVars, phraseVars>>
    \/ \E t \in {"muter", "unmuter"} : ToggleAcquire(t) /\ UNCHANGED <<micVars, recogVars, phraseVars>>
    \/ \E t \in {"muter", "unmuter"} : ToggleFlag(t) /\ UNCHANGED <<micVars, recogVars, phraseVars>>
    \/ \E t \in {"muter", "unmuter"} : ToggleDevice(t) /\ UNCHANGED <<micVars, recogVars, phraseVars>>
    \/ IsStopped /\ UNCHANGED <<micVars, recogVars, phraseVars>>
    \/ StopStream /\ UNCHANGED <<micVars, recogVars, phraseVars>>
    \/ CloseDevice /\ UNCHANGED <<micVars, recogVars, phraseVars>>
    \/ CloseDrop /\ UNCHANGED <<micVars, recogVars, phraseVars>>

SpecStream == InitStream /\ [][NextStream]_vars

\* The steps a thread takes inside a call it has made. A thread that is not
\* blocked goes on running, and one that waits for the lock gets it if the
\* lock keeps being released; the calls themselves, and what the device
\* delivers, are up to the callers and the device.
ReaderRuns ==
    /\ \/ ReadAcquire \/ ReadLoopExit \/ ReadMuted \/ ReadDevice
       \/ ReadNoDevice \/ ReadWake \/ ReadReturn
    /\ UNCHANGED <<micVars, recogVars, phraseVars>>

TogglerRuns(t) ==
    /\ ToggleAcquire(t) \/ ToggleFlag(t) \/ ToggleDevice(t)
    /\ UNCHANGED <<micVars, recogVars, phraseVars>>

CloserRuns == CloseDrop /\ UNCHANGED <<micVars, recogVars, phraseVars>>

SpecStreamFair ==
    /\ InitStream
    /\ [][NextStream]_vars
    /\ SF_vars(ReaderRuns)
    /\ SF_vars(TogglerRuns("muter"))
    /\ SF_vars(TogglerRuns("unmuter"))
    /\ WF_vars(CloserRuns)

\* MutableMicrophone.mute() / unmute() called by thread t on a microphone
\* other threads use too: self.muted is assigned outside any lock, then the
\* call goes on into the stream's mute() / unmute() when a stream is open.
MicToggleCall(t) ==
    /\ t \in {"muter", "unmuter"}
    /\ tpc[t] = "idle"
    /\ mic_muted' = (t = "muter")
    /\ IF stream = "open"
       THEN /\ Goto(t, "acquire")
            /\ Ends(t, "running")
       ELSE /\ Ends(t, "done")
            /\ UNCHANGED tpc
    /\ UNCHANGED <<muted, read_lock, wrapped_stream, size, of_exc, remaining,
                   frames, result, stream, audio, mpc, mic_op, mic_outcome,
                   recogVars, phraseVars>>

\* Several threads muting and unmuting an open microphone.
NextMicToggle ==
    \/ \E t \in {"muter", "unmuter"} : MicToggleCall(t)
    \/ \E t \in {"muter", "unmuter"} :
          ToggleAcquire(t) /\ UNCHANGED <<micVars, recogVars, phraseVars>>
    \/ \E t \in {"muter", "unmuter"} :
          ToggleFlag(t) /\ UNCHANGED <<micVars, recogVars, phraseVars>>
    \/ \E t \in {"muter", "unmuter"} :
          ToggleDevice(t) /\ UNCHANGED <<micVars, recogVars, phraseVars>>

SpecMicToggle == InitStream /\ [][NextMicToggle]_vars

\* MutableMicrophone(mute=...): no stream yet, the flag as asked.
InitMic ==
    /\ mic_muted \in BOOLEAN
    /\ stream = "None"
    /\ audio = "None"
    /\ mpc = "idle"
    /\ mic_op = "none"
    /\ mic_outcome = "none"
    /\ muted = FALSE
    /\ wrapped_stream = "None"
    /\ ThreadsIdle
    /\ RecognizerAbsent

NextMic ==
    \/ \E m \in BOOLEAN : MicToggle(m) /\ UNCHANGED <<recogVars, phraseVars>>
    \/ MicStartCall /\ UNCHANGED <<recogVars, phraseVars>>
    \/ \E op \in {"stop", "restart"} : MicStopCall(op) /\ UNCHANGED <<recogVars, phraseVars>>
    \/ MicStopQuery /\ UNCHANGED <<recogVars, phraseVars>>
    \/ MicStopStream /\ UNCHANGED <<recogVars, phraseVars>>
    \/ MicStopClose /\ UNCHANGED <<recogVars, phraseVars>>
    \/ MicStopDrop /\ UNCHANGED <<recogVars, phraseVars>>
    \/ MicStartAudio /\ UNCHANGED <<recogVars, phraseVars>>
    \/ MicStartOpen /\ UNCHANGED <<recogVars, phraseVars>>

SpecMic == InitMic /\ [][NextMic]_vars

\* _record_phrase called on an open microphone, by itself: any
\* sec_per_buffer, with or without a streaming sink and pre-buffered frames.
InitRecord ==
    /\ muted \in BOOLEAN
    /\ mic_muted = muted
    /\ MicOpened
    /\ wrapped_stream = IF muted THEN "stopped" ELSE "started"
    /\ ThreadsIdle
    /\ RecognizerIdle
    /\ config \in {c \in Configs : ~c.auto_ambient_noise_adjustment
                                     /\ ~c.listen_sound}
    /\ sec_per_buffer \in SecPerBufferChoices
    /\ \E h \in BOOLEAN, w \in {<<>>, <<RealChunk(1000)>>} :
          /\ stream_handler = h
          /\ ww_frames = w
    /\ pc = "rec_start"
    /\ ret = "done"

NextRecord ==
    \/ RecordStart
    \/ RecordTest
    \/ RecordChunk
    \/ RecordReadRaises
    \/ RecordReturn
    \/ Stop
    \/ SignalSet("buttonPress")
    \/ \E m \in BOOLEAN : MicToggle(m) /\ UNCHANGED <<recogVars, phraseVars>>

SpecRecord == InitRecord /\ [][NextRecord]_vars

\* Thresholds (thousandths) the recognizer is given before a phrase: zero,
\* below, at and above 1.5 x the energy of the quiet and of the loud chunks.
ThresholdInputs == {0, 120000, 150000, 300000, 1200000, 2000000}

\* _record_phrase called with any of these thresholds, on a muted or an
\* unmuted stream.
InitThreshold ==
    /\ muted \in BOOLEAN
    /\ mic_muted = muted
    /\ MicOpened
    /\ wrapped_stream = IF muted THEN "stopped" ELSE "started"
    /\ ThreadsIdle
    /\ energy_threshold \in ThresholdInputs
    /\ stop_signaled = FALSE
    /\ listen_triggered = FALSE
    /\ should_adjust_noise = FALSE
    /\ wait_request = FALSE
    /\ signals = {}
    /\ events = <<>>
    /\ calls = 0
    /\ listen_result = "none"
    /\ results = <<>>
    /\ steps = <<>>
    /\ config \in {c \in Configs : /\ ~c.auto_ambient_noise_adjustment
                                   /\ ~c.listen_sound
                                   /\ ~c.overflow_exc}
    /\ sec_per_buffer \in SecPerBufferChoices
    /\ stream_handler = FALSE
    /\ sink = <<>>
    /\ ww_frames = <<>>
    /\ num_loud_chunks = 0
    /\ noise = 0
    /\ silence_duration = 0
    /\ num_chunks = 0
    /\ byte_data = <<>>
    /\ phrase_complete = FALSE
    /\ pc = "rec_start"
    /\ ret = "done"

NextThreshold ==
    \/ RecordStart
    \/ RecordTest
    \/ RecordChunk
    \/ RecordReturn

SpecThreshold == InitThreshold /\ [][NextThreshold]_vars

\* A phrase of n chunks: a run of l loud chunks, then quiet chunks only.
LoudThenQuiet(l, n) ==
    [i \in 1..n |-> IF i <= l THEN RealChunk(1000) ELSE RealChunk(100)]

\* _record_phrase called with such a phrase pre-buffered in ww_frames, long
\* enough to last until the recording timeout.
InitEndpoint ==
    /\ muted = FALSE
    /\ mic_muted = FALSE
    /\ MicOpened
    /\ wrapped_stream = "started"
    /\ ThreadsIdle
    /\ RecognizerIdle
    /\ config = [min_loud_sec |-> MinLoudMs,
                 min_silence_at_end |-> MinSilenceMs,
                 recording_timeout |-> LongRecordingMs,
                 recording_timeout_with_silence |-> SilenceTimeoutMs,
                 overflow_exc |-> FALSE,
                 auto_ambient_noise_adjustment |-> FALSE,
                 listen_sound |-> FALSE]
    /\ sec_per_buffer \in SecPerBufferChoices
    /\ stream_handler \in BOOLEAN
    /\ \E l \in 1..MaxLoudRun :
          ww_frames = LoudThenQuiet(l, LongRecordingMs \div sec_per_buffer)
    /\ pc = "rec_start"
    /\ ret = "done"

NextEndpoint ==
    \/ RecordStart
    \/ RecordTest
    \/ RecordChunk
    \/ RecordReturn

SpecEndpoint == InitEndpoint /\ [][NextEndpoint]_vars

\* The capture thread about to call listen() on an open microphone, with
\* sec_per_buffer = CHUNK / SAMPLE_RATE as listen() computes it.
InitListen ==
    /\ muted = FALSE
    /\ mic_muted = FALSE
    /\ MicOpened
    /\ wrapped_stream = "started"
    /\ ThreadsIdle
    /\ RecognizerIdle
    /\ config \in Configs
    /\ sec_per_buffer = 125
    /\ stream_handler = FALSE
    /\ ww_frames = <<>>
    /\ pc = "idle"
    /\ ret = "l_end"

NextListen ==
    \/ ListenCall
    \/ \E m \in BOOLEAN : ListenToggle(m)
    \/ WaitTest
    \/ WaitSignal
    \/ WaitDebounce
    \/ WaitAdjustCheck
    \/ AdjustAmbientNoise
    \/ AdjustDone
    \/ WaitSleep
    \/ Cue
    \/ ListenClear
    \/ ListenStopCheck
    \/ ListenBegin
    \/ RecordStart
    \/ RecordTest
    \/ RecordChunk
    \/ RecordReadRaises
    \/ RecordReturn
    \/ ListenEnd
    \/ ListenReturn
    \/ Stop
    \/ TriggerListen
    \/ TriggerAmbientNoiseAdjustment
    \/ \E n \in {"startListening", "buttonPress", "adjustAmbientNoise"} :
          SignalSet(n)
    \/ SignalTaken

SpecListen == InitListen /\ [][NextListen]_vars

\* The steps of the capture thread: it calls listen() again whenever a call
\* has ended, and runs each call on.
CaptureRuns ==
    \/ ListenCall
    \/ \E m \in BOOLEAN : ListenToggle(m)
    \/ WaitTest
    \/ WaitSignal
    \/ WaitDebounce
    \/ WaitAdjustCheck
    \/ AdjustAmbientNoise
    \/ AdjustDone
    \/ WaitSleep
    \/ Cue
    \/ ListenClear
    \/ ListenStopCheck
    \/ ListenBegin
    \/ RecordStart
    \/ RecordTest
    \/ RecordChunk
    \/ RecordReadRaises
    \/ RecordReturn
    \/ ListenEnd
    \/ ListenReturn

\* listen() called repeatedly by the capture thread while other threads
\* trigger it and stop() is never called; no cue sound is configured.
InitTrigger ==
    /\ InitListen
    /\ ~config.listen_sound

NextTrigger ==
    \/ ListenCall
    \/ \E m \in BOOLEAN : ListenToggle(m)
    \/ WaitTest
    \/ WaitSignal
    \/ WaitDebounce
    \/ WaitAdjustCheck
    \/ AdjustAmbientNoise
    \/ AdjustDone
    \/ WaitSleep
    \/ Cue
    \/ ListenClear
    \/ ListenStopCheck
    \/ ListenBegin
    \/ RecordStart
    \/ RecordTest
    \/ RecordChunk
    \/ RecordReadRaises
    \/ RecordReturn
    \/ ListenEnd
    \/ ListenReturn
    \/ TriggerListen
    \/ TriggerAmbientNoiseAdjustment
    \/ \E n \in {"startListening", "buttonPress", "adjustAmbientNoise"} :
          SignalSet(n)
    \/ SignalTaken

\* A thread that can run does run: the capture thread is never held up for
\* ever. When the other threads call, and what the device does, is free.
SpecTrigger ==
    /\ InitTrigger
    /\ [][NextTrigger]_vars
    /\ WF_vars(CaptureRuns)

(* ------------------------------------------------------------------ *)
(* Claims about MutableStream                                         *)
(* ------------------------------------------------------------------ *)

\* C1: a read(n) that finds the stream muted returns a buffer of exactly the
\* requested size, every byte of it zero (silence, no device content).
C1_MutedReadReturnsRequestedSilence ==
    outcome["reader"] = "silence" =>
        /\ Len(result) = RequestedBytes(size)
        /\ \A i \in 1..Len(result) : result[i] = 0

\* C2: no two of mute(), unmute(), read() and close() are inside their
\* critical section on the stream at the same time.
C2_MutualExclusion ==
    \A t1, t2 \in Threads :
        t1 # t2 => ~(InCritical(t1) /\ InCritical(t2))

Togglers == {"muter", "unmuter"}

\* The device stream is there and has not been closed.
DeviceLive == wrapped_stream \in {"started", "stopped"}

\* C11: a device fault during mute() or unmute() is not raised to the
\* caller: the call returns normally, the lock is released and the muted
\* flag is the requested one.
C11_DeviceFaultNotRaised ==
    [][\A t \in Togglers :
          (tpc[t] = "device" /\ tpc'[t] = "idle" /\ DeviceLive) =>
              /\ outcome'[t] = "done"
              /\ read_lock' # t
              /\ muted' = (t = "muter")]_vars

\* The reader is in the loop of read(), the lock held.
ReaderInLoop == tpc["reader"] \in {"loop", "sleep"}

\* C12: when mute() or unmute() returns the muted flag is the requested one,
\* and it stays so until a later unmute() or mute() writes it; the flag does
\* not change while a read() holds the lock. A read() that takes the lock
\* with the flag set returns silence and has read nothing from the device;
\* one that takes it with the flag clear never returns silence, and the
\* data it returns are the device's, of the size asked.
C12_ToggleSeenByNextRead ==
    /\ [][\A t \in Togglers :
             (tpc[t] = "device" /\ tpc'[t] = "idle") =>
                 muted' = (t = "muter")]_vars
    /\ [][muted' # muted =>
             \E t \in Togglers :
                /\ tpc[t] = "flag"
                /\ tpc'[t] = "device"
                /\ muted' = (t = "muter")]_vars
    /\ [][ReaderInLoop => muted' = muted]_vars
    /\ [](ReaderInLoop /\ muted => frames = <<>>)
    /\ [][(/\ tpc["reader"] = "loop"
           /\ remaining > 0
           /\ (tpc'["reader"] # "loop" \/ frames' # frames))
          => IF muted
             THEN /\ outcome'["reader"] = "silence"
                  /\ tpc'["reader"] = "idle"
                  /\ \A i \in 1..Len(result') : result'[i] = 0
             ELSE outcome'["reader"] # "silence"]_vars
    /\ [](outcome["reader"] = "data" =>
             /\ Len(result) = size * SAMPLE_WIDTH
             /\ \A i \in 1..Len(result) : result[i] = 1)

\* An unmuted stream, mute() has returned, and a read() made after it has
\* returned silence.
C12_ReadAfterMute ==
    /\ ~mic_muted
    /\ outcome["unmuter"] = "none"
    /\ tpc["muter"] = "idle"
    /\ outcome["muter"] = "done"
    /\ outcome["reader"] = "silence"

\* C13: a mute() issued while a read() waits for device data returns, and
\* the read() in flight then returns silence, whatever the device delivers.
C13_MuteDuringReadReturns ==
    /\ (tpc["muter"] = "acquire" /\ tpc["reader"] = "sleep")
           ~> (tpc["muter"] = "idle")
    /\ [][(/\ tpc["muter"] = "acquire"
           /\ ReaderInLoop
           /\ ~ReaderInLoop')
          => outcome'["reader"] = "silence"]_vars

\* C18: a device overflow raises out of read() only when of_exc is set: on a
\* running device a read() with of_exc clear never raises, and the data it
\* returns have the size asked. However read() ends, by a return or by an
\* exception, the reader no longer holds the lock.
C18_OverflowRaisesOnlyIfAsked ==
    /\ [][(ReaderInLoop /\ outcome'["reader"] = "raised") =>
             /\ of_exc \/ wrapped_stream # "started"
             /\ read_lock' = "free"
             /\ tpc'["reader"] = "idle"]_vars
    /\ [](tpc["reader"] = "idle" => read_lock # "reader")
    /\ [](outcome["reader"] = "data" => Len(result) = size * SAMPLE_WIDTH)

\* read() has raised on a running device, and unmute() then took the lock.
C18_LockTakenAfterRaise ==
    /\ of_exc
    /\ outcome["reader"] = "raised"
    /\ tpc["reader"] = "idle"
    /\ outcome["muter"] = "none"
    /\ outcome["closer"] = "none"
    /\ ~mic_muted
    /\ read_lock = "unmuter"

\* No mute() or unmute() call is under way, and none of the last calls
\* ended by a device fault.
TogglesCompleted ==
    \A t \in Togglers : tpc[t] = "idle" /\ outcome[t] # "raised"

\* C22: with a stream open, once the mute() and unmute() calls made on the
\* microphone by several threads have run to completion, is_muted() equals
\* the stream's muted flag, and the device stream is stopped exactly when
\* that flag is true.
C22_MuteStateAgrees ==
    (stream = "open" /\ TogglesCompleted) =>
        /\ mic_muted = muted
        /\ (wrapped_stream = "stopped") <=> muted

(* ------------------------------------------------------------------ *)
(* Claims about _record_phrase                                        *)
(* ------------------------------------------------------------------ *)

\* The positions of _record_phrase at which its locals are set.
Recording == pc \in {"rec_test", "rec_chunk", "rec_return"}

chunk_byte_size == CHUNK * SAMPLE_WIDTH

\* C3 as stated: after N consumed chunks the phrase buffer holds
\* (N+1) x chunk_byte_size bytes, the sentinel counted as one chunk.
C3_BufferIsWholeChunks ==
    Recording => Len(byte_data) = (num_chunks + 1) * chunk_byte_size

\* C3: the phrase buffer starts as a sentinel of SAMPLE_WIDTH bytes, not of
\* a chunk; each consumed chunk appends its own length, which is
\* chunk_byte_size for a chunk read from the device, SAMPLE_WIDTH for a
\* chunk obtained while the stream is muted and the frame's length for a
\* pre-buffered frame; so the length is a whole number of samples.
C3_BufferGrowsByChunkLength ==
    /\ [](pc = "rec_test" /\ num_chunks = 0 => Len(byte_data) = SAMPLE_WIDTH)
    /\ [](Recording => Len(byte_data) % SAMPLE_WIDTH = 0)
    /\ [][pc = "rec_chunk" /\ pc' = "rec_test" =>
            /\ num_chunks' = num_chunks + 1
            /\ Len(byte_data') - Len(byte_data) =
                  IF ww_frames # <<>> THEN Len(Head(ww_frames))
                  ELSE IF muted THEN SAMPLE_WIDTH
                  ELSE chunk_byte_size]_vars

\* A sentinel, a chunk from the device and a chunk obtained while muted.
C3_ShortChunkRecorded ==
    /\ pc = "rec_test"
    /\ num_chunks = 2
    /\ ww_frames = <<>>
    /\ Len(byte_data) = SAMPLE_WIDTH + chunk_byte_size + SAMPLE_WIDTH

\* C4: during _record_phrase the noise level stays in [0, MAX_NOISE] after
\* every chunk.
C4_NoiseWithinBounds ==
    Recording => noise >= min_noise * 1000 /\ noise <= max_noise * 1000

\* C5 as stated: a stop() issued during the recording is seen by the loop
\* test, so no further chunk is started once the flag is set.
C5_StopEndsRecording ==
    [][pc = "rec_test" /\ stop_signaled => pc' # "rec_chunk"]_vars

\* C5: _record_phrase does not read the stop flag. Its loop goes on exactly
\* while fewer than max_chunks chunks are recorded and the phrase is not
\* complete, and the phrase is complete only by the silence test or the
\* buttonPress signal; a stop() issued during the recording changes neither.
C5_StopNotSeenByRecording ==
    /\ [][pc = "rec_test" /\ pc' # pc =>
            (pc' = "rec_chunk" <=>
                (num_chunks < max_chunks /\ ~phrase_complete))]_vars
    /\ [][pc = "rec_chunk" /\ pc' = "rec_test" =>
            (phrase_complete' <=>
                \/ CompletionTest(noise', silence_duration',
                                  num_loud_chunks', num_chunks')
                \/ "buttonPress" \in signals)]_vars

\* A chunk is being recorded although stop() was called a chunk or more ago.
C5_RecordingAfterStop ==
    /\ stop_signaled
    /\ pc = "rec_chunk"
    /\ num_chunks >= 1

\* C7: _record_phrase never consumes more than max_chunks chunks; a loud
\* chunk with no buttonPress signal never completes the phrase, so a
\* recording of loud chunks only returns at exactly max_chunks chunks, and
\* it returns the phrase.
C7_CapOnChunks ==
    /\ [](Recording => num_chunks <= max_chunks)
    /\ [][/\ pc = "rec_chunk"
          /\ pc' = "rec_test"
          /\ num_loud_chunks' = num_loud_chunks + 1
          /\ "buttonPress" \notin signals
          => ~phrase_complete']_vars
    /\ [](pc = "rec_return" /\ ~phrase_complete => num_chunks = max_chunks)
    /\ [][pc = "rec_return" /\ pc' # pc =>
            pc' = ret /\ (ret = "done" => listen_result' = "phrase")]_vars

\* Only loud chunks were recorded and the phrase was returned at the cap.
C7_ReturnedAtCap ==
    /\ pc = "done"
    /\ listen_result = "phrase"
    /\ max_chunks > 0
    /\ num_chunks = max_chunks
    /\ num_loud_chunks = num_chunks
    /\ ~phrase_complete

\* A pass of the recording loop has consumed a chunk; the chunk is what the
\* pass appended to the phrase buffer.
ChunkConsumed == pc = "rec_chunk" /\ pc' = "rec_test"

AppendedChunk == SubSeq(byte_data', Len(byte_data) + 1, Len(byte_data'))

\* energy > energy_threshold x multiplier for the appended chunk, with the
\* threshold as it was when the chunk arrived.
AppendedIsLoud ==
    calc_energy(AppendedChunk) * 1000000 > energy_threshold * multiplier

\* C15: a loud chunk leaves energy_threshold unchanged; the only steps that
\* change it are the pass of the recording loop over a quiet chunk and the
\* ambient recalibration, so the value a phrase leaves is the value the
\* next phrase starts with.
C15_ThresholdChangedByQuietChunkOnly ==
    [][/\ (ChunkConsumed /\ AppendedIsLoud) =>
             energy_threshold' = energy_threshold
       /\ energy_threshold' # energy_threshold =>
             \/ ChunkConsumed /\ ~AppendedIsLoud
             \/ pc \in {"w_adjusting", "l_adjusting"}]_vars

\* The second phrase starts with a threshold that a quiet chunk of the first
\* phrase left.
C15_ThresholdKeptAcrossPhrases ==
    /\ calls = 2
    /\ results = <<"phrase">>
    /\ pc = "rec_test"
    /\ num_chunks = 0
    /\ energy_threshold \notin ThresholdChoices

\* The threshold b lies strictly between a and c.
StrictlyBetween(a, b, c) == (a < b /\ b < c) \/ (c < b /\ b < a)

\* C16 as stated: after a quiet chunk of any energy E >= 0, a threshold T
\* other than E x energy_ratio moves to a value strictly between the two,
\* and the threshold is never negative.
C16_QuietChunkMovesThreshold ==
    /\ [](energy_threshold >= 0)
    /\ [][(ChunkConsumed /\ ~AppendedIsLoud) =>
            LET target == calc_energy(AppendedChunk) * energy_ratio
            IN  energy_threshold # target =>
                   StrictlyBetween(energy_threshold, energy_threshold',
                                   target)]_vars

\* C16: after a quiet chunk of energy E > 0 a threshold T other than
\* E x energy_ratio moves to a value strictly between T and E x energy_ratio;
\* a quiet chunk of energy 0, such as the zero chunk of a muted stream,
\* leaves the threshold as it is; the threshold is never negative.
C16_PositiveEnergyMovesThreshold ==
    /\ [](energy_threshold >= 0)
    /\ [][(ChunkConsumed /\ ~AppendedIsLoud) =>
            LET E == calc_energy(AppendedChunk)
                target == E * energy_ratio
            IN  IF E > 0 /\ energy_threshold # target
                THEN StrictlyBetween(energy_threshold, energy_threshold',
                                     target)
                ELSE energy_threshold' = energy_threshold]_vars

\* A threshold that has moved up after a quiet chunk, on an unmuted stream.
C16_ThresholdRaised ==
    /\ ~muted
    /\ pc = "rec_test"
    /\ num_chunks = 1
    /\ num_loud_chunks = 0
    /\ energy_threshold > 1200000
    /\ energy_threshold < 1500000

\* The quiet chunks consumed so far.
QuietChunks == num_chunks - num_loud_chunks

RECURSIVE NoiseAfterLoudRun(_)
NoiseAfterLoudRun(l) ==
    IF l = 0 THEN 0
    ELSE LET before == NoiseAfterLoudRun(l - 1)
         IN  IF before < max_noise * 1000
             THEN before + 200 * sec_per_buffer
             ELSE before

CeilDiv(a, b) == (a + b - 1) \div b

\* The quiet chunks it takes the noise level n to fall to the floor, at
\* 100 x sec_per_buffer per chunk, and the chunks of silence that make up
\* min_silence_at_end, the first of them being the chunk that reached the
\* floor.
DecayChunks(n) == CeilDiv(n, 100 * sec_per_buffer)

SilenceChunks == CeilDiv(config.min_silence_at_end, sec_per_buffer)

QuietChunksToEnd(l) == DecayChunks(NoiseAfterLoudRun(l)) + SilenceChunks - 1

SilenceEnds(n, d, l, c) ==
    /\ n <= min_noise * 1000
    /\ d >= config.min_silence_at_end
    /\ \/ l > config.min_loud_sec \div sec_per_buffer
       \/ c > config.recording_timeout_with_silence \div sec_per_buffer

\* Condition (c): int(recording_timeout / sec_per_buffer) chunks recorded.
CapReached == num_chunks >= config.recording_timeout \div sec_per_buffer

\* C19: a chunk completes the phrase exactly when, after it, condition (a)
\* holds or the buttonPress signal is observed; the loop consumes a further
\* chunk exactly when the phrase is not complete and the cap is not reached,
\* and returns otherwise; every chunk resets the silence to 0 if it leaves
\* the noise level above the floor and adds sec_per_buffer to it if not.
C19_CompletesExactlyWhenConditionHolds ==
    /\ [][ChunkConsumed =>
            /\ phrase_complete' <=>
                  \/ SilenceEnds(noise', silence_duration',
                                 num_loud_chunks', num_chunks')
                  \/ "buttonPress" \in signals
            /\ silence_duration' =
                  IF noise' > min_noise * 1000 THEN 0
                  ELSE silence_duration + sec_per_buffer]_vars
    /\ [][(pc = "rec_test" /\ pc' # pc) =>
            IF phrase_complete \/ CapReached
            THEN pc' = "rec_return"
            ELSE pc' = "rec_chunk"]_vars
    /\ [](pc = "rec_chunk" => ~phrase_complete /\ ~CapReached)

\* The phrase was completed by condition (a), before the cap.
C19_CompletedBySilence ==
    /\ pc = "rec_return"
    /\ phrase_complete
    /\ ~CapReached
    /\ num_loud_chunks >= 1
    /\ SilenceEnds(noise, silence_duration, num_loud_chunks, num_chunks)

\* The chunks of a sequence, one after the other.
RECURSIVE Flatten(_)
Flatten(chunks) ==
    IF chunks = <<>> THEN <<>> ELSE Head(chunks) \o Flatten(Tail(chunks))

\* C20: with a sink given, each chunk appended to the phrase buffer is sent
\* to the sink once, in the same order, the pre-buffered ww_frames first; the
\* chunks the sink has got, one after the other, are the phrase buffer
\* without its sentinel. With no sink given nothing is sent.
C20_SinkGetsEveryChunk ==
    /\ [](Recording =>
            IF stream_handler
            THEN /\ Len(sink) = num_chunks
                 /\ Flatten(sink) =
                       SubSeq(byte_data, SAMPLE_WIDTH + 1, Len(byte_data))
            ELSE sink = <<>>)
    /\ [][(ChunkConsumed /\ stream_handler) =>
            /\ sink' = Append(sink, AppendedChunk)
            /\ ww_frames # <<>> =>
                  /\ AppendedChunk = Head(ww_frames)
                  /\ ww_frames' = Tail(ww_frames)]_vars

\* The sink has got the pre-buffered loud chunk, then a quiet chunk read
\* from the device.
C20_SinkGotBufferedThenRead ==
    /\ stream_handler
    /\ pc = "rec_return"
    /\ ww_frames = <<>>
    /\ Len(sink) = 2
    /\ calc_energy(sink[1]) = 1000
    /\ calc_energy(sink[2]) = 100

(* ------------------------------------------------------------------ *)
(* Claims about listen                                                *)
(* ------------------------------------------------------------------ *)

\* listen() is in the trigger wait; it has left the wait and not yet
\* tested the stop flag.
Waiting == pc \in WaitPositions

LeavingWait == pc \in {"cue", "l_clear", "l_stopchk"}

\* C6: with the stop flag set while listen() waits for the trigger, the wait
\* ends at its next loop test, whatever trigger has arrived, and listen()
\* then returns None: it emits no event, does not unmute the stream and
\* does not run _record_phrase.
C6_StopDuringWaitReturnsNone ==
    /\ [][stop_signaled /\ pc = "w_test" /\ pc' # pc => pc' = "cue"]_vars
    /\ [][stop_signaled /\ LeavingWait /\ pc' # pc =>
            \/ LeavingWait'
            \/ pc' = "idle" /\ listen_result' = "None"]_vars
    /\ [][stop_signaled /\ (Waiting \/ LeavingWait) =>
            /\ Waiting' \/ LeavingWait' \/ pc' = "idle"
            /\ events' = events
            /\ muted' = muted
            /\ wrapped_stream' = wrapped_stream]_vars

\* stop() was called, and a trigger has arrived, during the wait.
C6_StoppedWhileWaiting ==
    /\ stop_signaled
    /\ listen_triggered
    /\ pc = "w_sleep"
    /\ muted

\* The steps of a call, the cue sound aside.
IsNotCue(s) == s # "cue"

StepsTaken == SelectSeq(steps, IsNotCue)

PhraseSteps(recalibrated) ==
    <<"mute", "wait", "unmute", "record_begin", "record", "record_end">>
        \o (IF recalibrated THEN <<"recalibrate">> ELSE <<>>)
        \o <<"return">>

\* C8: a listen() call that returns a phrase has done mute, wait, unmute,
\* record_begin, record, record_end, an optional recalibration and return,
\* in this order and once each; and over repeated calls the events
\* alternate record_begin, record_end.
C8_OrderedAndAlternating ==
    /\ (pc = "idle" /\ listen_result = "phrase") =>
          StepsTaken = PhraseSteps(config.auto_ambient_noise_adjustment)
    /\ \A i \in 1..Len(events) :
          events[i] = IF i % 2 = 1 THEN "record_begin" ELSE "record_end"

\* C14: the cue sound is played only after a wait that a listen trigger
\* ended; a wait ended by the stop flag returns without playing it.
C14_CueOnlyAfterTrigger ==
    \A i \in 1..Len(steps) :
        steps[i] = "cue" => (i > 1 /\ steps[i - 1] = "wait")

\* listen() has been called and has not got past its test of the stop flag.
BeforeRecording == pc = "l_mute" \/ Waiting \/ LeavingWait

\* C24: the stop request is sticky. No step clears the stop flag; a listen()
\* call that finds it set goes from mute through the wait to its return and
\* nowhere else, whatever triggers arrive; it emits no event; and it ends
\* with no phrase (None, or the exception of a failed mute) and with the
\* microphone and its stream muted.
C24_StopIsSticky ==
    /\ [][stop_signaled => stop_signaled']_vars
    /\ [][(stop_signaled /\ BeforeRecording) =>
            /\ BeforeRecording' \/ pc' = "idle"
            /\ events' = events]_vars
    /\ [][(stop_signaled /\ BeforeRecording /\ pc' = "idle") =>
            /\ listen_result' \in {"None", "IOError:mute"}
            /\ mic_muted'
            /\ muted']_vars

\* After a phrase, stop() was called; the listen() call made after it has
\* returned None although a trigger and a button press have arrived.
C24_ReturnedNoneAfterStop ==
    /\ stop_signaled
    /\ pc = "idle"
    /\ results = <<"phrase", "None">>
    /\ events = <<"record_begin", "record_end">>
    /\ listen_triggered
    /\ "buttonPress" \in signals
    /\ mic_muted
    /\ wrapped_stream = "stopped"

\* The capture thread will call listen() again after the call now running.
AnotherCallFollows == calls < MaxListens

\* listen() has just emitted record_begin.
JustBegun == pc = "rec_start"

\* A listen() call has just ended by the exception of a failed
\* source.mute(), which leaves the trigger flag as it was.
MuteJustFailed == pc = "idle" /\ listen_result = "IOError:mute"

\* The last listen() call followed here has ended.
CallsOver == pc = "idle" /\ calls = MaxListens

\* C23: with listen() called repeatedly and stop() never called, every
\* trigger_listen() call, at whatever point of the cycle it arrives, is
\* followed by a record_begin emitted after it, for as long as calls are
\* followed (calls that fail to mute set aside: they leave the trigger
\* pending); and one trigger starts at most
\* one recording, the flag being cleared after the wait and before the
\* recording begins.
C23_TriggerStartsOneRecording ==
    /\ (listen_triggered /\ AnotherCallFollows)
          ~> (JustBegun \/ MuteJustFailed \/ CallsOver)
    /\ [][(pc = "l_clear" /\ pc' # pc) => ~listen_triggered']_vars
    /\ [][(pc # "l_begin" /\ pc' = "l_begin") =>
            (steps[Len(steps)] = "wait" /\ pc = "l_unmute")]_vars

\* C21: a recalibration request made during the trigger wait is followed by
\* a recalibration that starts after it, and the request flag is clear only
\* after such a recalibration has run: no request made in the wait is left
\* unserved with the flag down.
C21_RequestClearedByLaterRecalibration ==
    wait_request => should_adjust_noise

(* ------------------------------------------------------------------ *)
(* Claims about MutableMicrophone                                     *)
(* ------------------------------------------------------------------ *)

\* An open (entering the context, or the open of restart()) has just ended
\* and the device did not refuse it.
OpenEnded ==
    /\ mpc = "idle"
    /\ mic_op \in {"start", "restart"}
    /\ mic_outcome \notin {"IOError", "AssertionError"}

\* C9: whenever a stream is opened, by entering the context or by restart(),
\* the open succeeds and the new stream's mute state equals the microphone's
\* muted flag, so a microphone muted before the open is still muted after it.
C9_OpenKeepsMuteState ==
    OpenEnded =>
        /\ mic_outcome = "ok"
        /\ stream = "open"
        /\ muted = mic_muted

\* The teardown half of C10: _stop ends without raising, the microphone owns
\* no stream and the device handle is released.
TeardownCompletes ==
    (mpc = "idle" /\ mic_op = "stop") =>
        /\ mic_outcome = "ok"
        /\ stream = "None"
        /\ audio = "terminated"

\* C10: teardown always completes without raising, leaves no stream and a
\* released device handle, and the open that follows it in restart() succeeds
\* with one new stream.
C10_TeardownThenOpen ==
    /\ TeardownCompletes
    /\ (OpenEnded /\ mic_op = "restart") =>
           /\ mic_outcome = "ok"
           /\ stream = "open"
           /\ audio = "open"

====
